---- MODULE Spec2Model ----
(***************************************************************************)
(* A model of the provisioning engine of sptoolkit: the process executor   *)
(* (jhub/utils.py), the conda wrapper (jhub/conda.py) and the apt source   *)
(* manager (jhub/apt.py).  Every component has its own specification       *)
(* (SpecRun, SpecDownload, SpecProbe, SpecConda, SpecApt); the variables   *)
(* of the other components keep their initial value there.                 *)
(***************************************************************************)
EXTENDS Integers, Sequences, FiniteSets, TLC

VARIABLES
    log,        \* records handed to the 'jhub' logger, in order
    cmds,       \* external commands that ran: argv, exit code, output, caller
    ret,        \* how the last operation ended
    nOps,       \* operations started so far
    dl,         \* download_miniconda_installer: position, file, digests
    netCalls,   \* number of HTTP GETs issued
    conda,      \* the conda binary under the prefix, as the probe sees it
    perms,      \* ownership/permission state of the prefix
    lines,      \* the output conda install will print, line by line
    trailingNL, \* whether that output ends with a newline
    nStray,     \* stray NUL bytes put into that output
    file,       \* content of /etc/apt/sources.list.d/<name>.list
    distro,     \* VERSION_CODENAME of /etc/os-release
    calls,      \* the add_source calls made so far
    logging,    \* the loggers of the process: level and handlers of each
    installerLog, \* lines written to <install prefix>/installer.log
    stderr,     \* lines written to the terminal
    pm,         \* get_plugin_manager: entry points installed, managers made
    boot        \* initialize.py main: how it ended and what it exec'ed

vars == <<log, cmds, ret, nOps, dl, netCalls, conda, perms, lines, trailingNL, nStray, file, distro, calls, logging, installerLog, stderr, pm, boot>>

dlVars == <<dl, netCalls>>

probeVars == <<conda, perms>>

condaVars == <<lines, trailingNL, nStray>>

aptVars == <<file, distro, calls>>

logVars == <<logging, installerLog, stderr>>

sysVars == <<logVars, pm, boot>>

----------------------------------------------------------------------------
\* Bounds of the model.

\* run_subprocess calls in one behaviour of SpecRun
MaxRuns == 3

\* Exit codes a command can end with (0 is success).
ExitCodes == {0, 1, 2}

\* Captured (merged stdout/stderr) outputs of a command.
Outputs == {"", "E: failed\n"}

----------------------------------------------------------------------------
\* Exceptions and results.

NoExc == [type |-> "none", code |-> 0]

CalledProcessError(code) == [type |-> "CalledProcessError", code |-> code]

Exc(type) == [type |-> type, code |-> 0]

NoRet == [op |-> "none", arg |-> "", exc |-> NoExc, value |-> "None"]

Ret(op, arg, exc, value) == [op |-> op, arg |-> arg, exc |-> exc, value |-> value]

\* ' '.join(cmd)
RECURSIVE JoinSp(_)
JoinSp(cmd) ==
    IF cmd = <<>> THEN ""
    ELSE IF Len(cmd) = 1 THEN cmd[1]
    ELSE cmd[1] \o " " \o JoinSp(Tail(cmd))

\* 'Ran {command} with exit code {code}'
RanMsg(cmd, code) == "Ran " \o JoinSp(cmd) \o " with exit code " \o ToString(code)

Rec(level, msg) == [level |-> level, msg |-> msg]

Ran(cmd, code, out, via) == [argv |-> cmd, code |-> code, out |-> out, via |-> via]

\* The part of the state every operation threads through: the log, the
\* commands run and the exception in flight.
St0 == [log |-> log, cmds |-> cmds, exc |-> NoExc, perms |-> perms]

----------------------------------------------------------------------------
\* jhub/utils.py (and its copy in initialize/initialize.py): run_subprocess

run_subprocess_info(st, cmd, code, out) ==
    LET ran == [st EXCEPT !.cmds = Append(@, Ran(cmd, code, out, "run_subprocess"))]
    IN  IF code # 0
        THEN [ran EXCEPT !.log = @ \o <<Rec("ERROR", RanMsg(cmd, code)), Rec("ERROR", out)>>,
                         !.exc = CalledProcessError(code)]
        ELSE [ran EXCEPT !.log = @ \o <<Rec("INFO", RanMsg(cmd, code)), Rec("INFO", out)>>]

run_subprocess(st, cmd, code, out) ==
    LET ran == [st EXCEPT !.cmds = Append(@, Ran(cmd, code, out, "run_subprocess"))]
    IN  IF code # 0
        THEN [ran EXCEPT !.log = @ \o <<Rec("ERROR", RanMsg(cmd, code)), Rec("ERROR", out)>>,
                         !.exc = CalledProcessError(code)]
        ELSE [ran EXCEPT !.log = @ \o <<Rec("DEBUG", RanMsg(cmd, code)), Rec("DEBUG", out)>>]

\* subprocess.check_output as conda.py and apt.py call it directly: the
\* command runs, nothing is logged, a non-zero exit raises.
check_output(st, cmd, code, out) ==
    LET ran == [st EXCEPT !.cmds = Append(@, Ran(cmd, code, out, "check_output"))]
    IN  IF code # 0 THEN [ran EXCEPT !.exc = CalledProcessError(code)] ELSE ran

\* Commands the callers of run_subprocess pass in SpecRun.
RunCmds == {<<"apt-get", "update", "--yes">>, <<"apt-key", "add", "-">>}

RunSubprocessCall(cmd, code, out) ==
    /\ nOps < MaxRuns
    /\ nOps' = nOps + 1
    /\ LET st == run_subprocess(St0, cmd, code, out)
       IN  /\ log' = st.log
           /\ cmds' = st.cmds
           /\ ret' = Ret("run_subprocess", JoinSp(cmd), st.exc, "None")
    /\ UNCHANGED <<dlVars, probeVars, condaVars, aptVars, sysVars>>

----------------------------------------------------------------------------
\* Initial values.

InitShared ==
    /\ log = <<>>
    /\ cmds = <<>>
    /\ ret = NoRet
    /\ nOps = 0

IdleDl == [pc |-> "idle", tmp |-> "absent", content |-> <<>>, sha256sum |-> "", handed |-> FALSE, n |-> 0, paths |-> {}]

InitDlIdle ==
    /\ dl = IdleDl
    /\ netCalls = 0

NoConda == [binary |-> "missing", code |-> 0, out |-> <<>>]

InitProbeIdle ==
    /\ conda = NoConda
    /\ perms = [owned |-> FALSE, worldWritable |-> TRUE]

InitCondaIdle ==
    /\ lines = <<>>
    /\ trailingNL = FALSE
    /\ nStray = 0

InitAptIdle ==
    /\ file = <<>>
    /\ distro = "focal"
    /\ calls = <<>>

\* No logger configured: the root logger at WARNING, no handler anywhere.
NoLogging == [jhub |-> [level |-> "NOTSET", handlers |-> <<>>], main |-> [level |-> "NOTSET", handlers |-> <<>>], root |-> [level |-> "WARNING", handlers |-> <<>>]]

InitLoggingIdle ==
    /\ logging = NoLogging
    /\ installerLog = <<>>
    /\ stderr = <<>>

InitPmIdle == pm = [installed |-> <<>>, made |-> <<>>, discoveries |-> 0]

InitBootIdle == boot = [pc |-> "start", argv |-> <<>>, execv |-> <<>>, server |-> "none", pid |-> 0]

InitSysIdle == InitLoggingIdle /\ InitPmIdle /\ InitBootIdle

----------------------------------------------------------------------------
\* The process executor on its own.

InitRun == InitShared /\ InitSysIdle /\ InitDlIdle /\ InitProbeIdle /\ InitCondaIdle /\ InitAptIdle

NextRun == \E cmd \in RunCmds, code \in ExitCodes, out \in Outputs : RunSubprocessCall(cmd, code, out)

SpecRun == InitRun /\ [][NextRun]_vars

\* The two log records of the k-th command.
RecsOf(k) == <<log[2 * k - 1], log[2 * k]>>

----------------------------------------------------------------------------
\* jhub/conda.py: sha256_file and download_miniconda_installer

\* Bytes of a downloaded file, and the longest file downloaded.
Bytes == {0, 1}

MaxContentLen == 3

\* download_miniconda_installer calls in one behaviour of SpecDownload
MaxDownloads == 3

\* f.read(4096): the chunk size, scaled to the files of the model.
ChunkSize == 2

\* The digest is kept modulo HashMod (sha256 keeps 256 bits).
HashMod == 5

Contents == UNION {[1..n -> Bytes] : n \in 0..MaxContentLen}

Min(a, b) == IF a < b THEN a ELSE b

\* hash_sha256.update(chunk)
RECURSIVE update(_, _)
update(h, chunk) ==
    IF chunk = <<>> THEN h
    ELSE update((3 * h + chunk[1] + 1) % HashMod, Tail(chunk))

\* for chunk in iter(lambda: f.read(4096), b""): hash_sha256.update(chunk)
RECURSIVE read_chunks(_, _)
read_chunks(h, rest) ==
    IF rest = <<>> THEN h
    ELSE LET n == Min(ChunkSize, Len(rest))
         IN  read_chunks(update(h, SubSeq(rest, 1, n)), SubSeq(rest, n + 1, Len(rest)))

\* hexdigest() of the file's content
sha256_file(content) == ToString(read_chunks(0, content))

Digests == {ToString(d) : d \in 0..(HashMod - 1)}

\* raise Exception(_sha256_ex)
Sha256Ex == Exc("Exception: sha256sum hash mismatch! Downloaded file corrupted.")

DigestMismatch_never(content, sha256sum) == FALSE

\* if sha256_file(f.name) != sha256sum
DigestMismatch(content, sha256sum) == sha256_file(content) # sha256sum

TempExit_keep(d, path) == [d EXCEPT !.pc = IF path = "normal" THEN "done" ELSE "raised", !.paths = @ \cup {path}]

\* Leaving 'with tempfile.NamedTemporaryFile() as f': the file is closed
\* and, being delete-on-close, unlinked.  path names how the block was left.
TempExit(d, path) == [d EXCEPT !.pc = IF path = "normal" THEN "done" ELSE "raised", !.tmp = "absent", !.paths = @ \cup {path}]

\* with tempfile.NamedTemporaryFile() as f
DlOpenTemp(sha256sum) ==
    /\ dl.pc \in {"idle", "done", "raised"}
    /\ dl.n < MaxDownloads
    /\ dl' = [dl EXCEPT !.pc = "created", !.tmp = "present", !.content = <<>>, !.sha256sum = sha256sum, !.handed = FALSE, !.n = @ + 1]
    /\ ret' = NoRet
    /\ UNCHANGED <<log, cmds, nOps, netCalls, probeVars, condaVars, aptVars, sysVars>>

\* f.write(requests.get(installer_url).content)
DlFetch(content) ==
    /\ dl.pc = "created"
    /\ dl' = [dl EXCEPT !.pc = "written", !.content = content]
    /\ netCalls' = netCalls + 1
    /\ UNCHANGED <<log, cmds, ret, nOps, probeVars, condaVars, aptVars, sysVars>>

\* requests.get raises (no route, timeout): the exception leaves the with block
DlFetchFails ==
    /\ dl.pc = "created"
    /\ dl' = TempExit(dl, "fetch")
    /\ netCalls' = netCalls + 1
    /\ ret' = Ret("download_miniconda_installer", "", Exc("RequestException"), "None")
    /\ UNCHANGED <<log, cmds, nOps, probeVars, condaVars, aptVars, sysVars>>

\* The digest check, then either 'raise Exception(_sha256_ex)' or 'yield f.name'
DlVerify ==
    /\ dl.pc = "written"
    /\ IF DigestMismatch(dl.content, dl.sha256sum)
       THEN /\ dl' = TempExit(dl, "mismatch")
            /\ ret' = Ret("download_miniconda_installer", "", Sha256Ex, "None")
       ELSE /\ dl' = [dl EXCEPT !.pc = "inBlock", !.handed = TRUE]
            /\ ret' = ret
    /\ UNCHANGED <<log, cmds, nOps, netCalls, probeVars, condaVars, aptVars, sysVars>>

\* The caller's with-block ends normally: the generator resumes after the yield
DlBlockReturns ==
    /\ dl.pc = "inBlock"
    /\ dl' = TempExit(dl, "normal")
    /\ ret' = Ret("download_miniconda_installer", "", NoExc, "None")
    /\ UNCHANGED <<log, cmds, nOps, netCalls, probeVars, condaVars, aptVars, sysVars>>

\* The caller's with-block raises: the exception is thrown into the generator at the yield
DlBlockRaises ==
    /\ dl.pc = "inBlock"
    /\ dl' = TempExit(dl, "block")
    /\ ret' = Ret("download_miniconda_installer", "", Exc("BlockError"), "None")
    /\ UNCHANGED <<log, cmds, nOps, netCalls, probeVars, condaVars, aptVars, sysVars>>

InitDownload == InitShared /\ InitSysIdle /\ InitDlIdle /\ InitProbeIdle /\ InitCondaIdle /\ InitAptIdle

NextDownload ==
    \/ \E sha256sum \in Digests : DlOpenTemp(sha256sum)
    \/ \E content \in Contents : DlFetch(content)
    \/ DlFetchFails
    \/ DlVerify
    \/ DlBlockReturns
    \/ DlBlockRaises

SpecDownload == InitDownload /\ [][NextDownload]_vars

\* C2: the path is yielded to the caller's with-block only when the sha256
\* of the downloaded file equals the expected digest; when they differ the
\* call raises and the block is never entered.
C2_VerifiedBeforeYield ==
    /\ (dl.handed \/ dl.pc = "inBlock") => sha256_file(dl.content) = dl.sha256sum
    /\ (dl.pc \in {"inBlock", "done", "raised"} /\ ret.exc # Exc("RequestException") /\ sha256_file(dl.content) # dl.sha256sum) =>
          /\ dl.pc = "raised"
          /\ ~dl.handed
          /\ ret.exc = Sha256Ex

C2_Witness ==
    /\ dl.pc = "raised"
    /\ ret.exc = Sha256Ex
    /\ dl.content # <<>>
    /\ sha256_file(dl.content) # dl.sha256sum
    /\ "normal" \in dl.paths

\* C3: once download_miniconda_installer has been left (digest mismatch,
\* normal end of the caller's block, exception in the caller's block) the
\* temporary file no longer exists.
C3_TempRemovedOnExit == dl.pc \in {"done", "raised"} => dl.tmp = "absent"

C3_Witness ==
    /\ dl.pc \in {"done", "raised"}
    /\ {"mismatch", "normal", "block"} \subseteq dl.paths
    /\ dl.tmp = "absent"

----------------------------------------------------------------------------
\* jhub/conda.py: fix_permissions, install_miniconda, check_miniconda_version

\* "{}:{}".format(os.getuid(), os.getgid()) of the installing user
UidGid == "0:0"

Prefix == "/opt/jhub/user"

\* Operations in one behaviour of SpecProbe
MaxProbeOps == 3

\* chown -R uid:gid prefix, then chmod -R o-w prefix; a failing chown
\* raises before chmod runs.
fix_permissions(st, prefix, chownCode, chmodCode) ==
    LET s1 == run_subprocess(st, <<"chown", "-R", UidGid, prefix>>, chownCode, "")
        s2 == IF chownCode = 0 THEN [s1 EXCEPT !.perms.owned = TRUE] ELSE s1
        s3 == run_subprocess(s2, <<"chmod", "-R", "o-w", prefix>>, chmodCode, "")
    IN  IF s2.exc # NoExc THEN s2
        ELSE IF chmodCode = 0 THEN [s3 EXCEPT !.perms.worldWritable = FALSE] ELSE s3

\* A version string as distutils' LooseVersion splits it: numbers and
\* runs of letters, numbers converted to int.
Num(n) == [isInt |-> TRUE, n |-> n, s |-> ""]

Alpha(s) == [isInt |-> FALSE, n |-> 0, s |-> s]

V(vstring) ==
    CASE vstring = "4.8" -> <<Num(4), Num(8)>>
      [] vstring = "4.9" -> <<Num(4), Num(9)>>
      [] vstring = "4.10.1" -> <<Num(4), Num(10), Num(1)>>
      [] vstring = "4.7.12" -> <<Num(4), Num(7), Num(12)>>
      [] vstring = "4.8.3" -> <<Num(4), Num(8), Num(3)>>
      [] vstring = "4.8.rc1" -> <<Num(4), Num(8), Alpha("rc"), Num(1)>>
      [] vstring = "error:" -> <<Alpha("error"), Alpha(":")>>
      [] OTHER -> <<Alpha(vstring)>>

\* Python's order of str values, for the letters of the model.
StrRank(s) == CASE s = ":" -> 0 [] s = "error" -> 1 [] s = "rc" -> 2 [] OTHER -> 3

\* Index of the first position where two lists differ, 0 when one is a
\* prefix of the other.
RECURSIVE FirstDiff(_, _, _)
FirstDiff(a, b, i) ==
    IF i > Len(a) \/ i > Len(b) THEN 0
    ELSE IF a[i] # b[i] THEN i
    ELSE FirstDiff(a, b, i + 1)

\* a < b on Python lists of int and str: "true", "false", or "TypeError"
\* when the first differing elements are an int and a str.
ListLt(a, b) ==
    LET i == FirstDiff(a, b, 1)
    IN  IF i = 0 THEN (IF Len(a) < Len(b) THEN "true" ELSE "false")
        ELSE IF a[i].isInt # b[i].isInt THEN "TypeError"
        ELSE IF a[i].isInt THEN (IF a[i].n < b[i].n THEN "true" ELSE "false")
        ELSE IF StrRank(a[i].s) < StrRank(b[i].s) THEN "true" ELSE "false"

\* LooseVersion._cmp: 0, -1, 1, or 2 for a TypeError
LooseCmp(a, b) ==
    IF a = b THEN 0
    ELSE IF ListLt(a, b) = "TypeError" THEN 2
    ELSE IF ListLt(a, b) = "true" THEN -1
    ELSE 1

\* V(installed_version) >= V(version)
VersionGE(installed, version) ==
    LET c == LooseCmp(V(installed), V(version))
    IN  IF c = 2 THEN "TypeError" ELSE IF c >= 0 THEN "True" ELSE "False"

\* The text of a sequence of tokens.
RECURSIVE Cat(_)
Cat(toks) == IF toks = <<>> THEN "" ELSE toks[1] \o Cat(Tail(toks))

IsSpace(tok) == tok \in {" ", "\n"}

IsWord(tok) == ~IsSpace(tok)

\* .strip().split(): the words of the output (words are separated by
\* white space in every output of the model)
split(out) == SelectSeq(out, IsWord)

\* What 'conda -V' can print (stdout and stderr merged).
CondaOutputs == {
    <<>>,
    <<"\n">>,
    <<"conda", "\n">>,
    <<"conda", " ", "4.9", "\n">>,
    <<"conda", " ", "4.8", "\n">>,
    <<"conda", " ", "4.10.1", "\n">>,
    <<"conda", " ", "4.7.12", "\n">>,
    <<"conda", " ", "4.8.rc1", "\n">>,
    <<"conda:", " ", "error:", " ", "unrecognized", "\n">>}

CondaStates ==
    {[binary |-> b, code |-> 0, out |-> <<>>] : b \in {"missing", "notexec"}}
    \cup {[binary |-> "present", code |-> c, out |-> o] : c \in {0, 1}, o \in CondaOutputs}

MinVersions == {"4.8", "4.8.3"}

\* The probe: run <prefix>/bin/conda -V, take the second word of its
\* output as the installed version and compare.  FileNotFoundError and
\* CalledProcessError are caught and give False; anything else propagates.
check_miniconda_version(st, c, version) ==
    IF c.binary = "missing" THEN [st |-> st, exc |-> NoExc, value |-> "False"]
    ELSE IF c.binary = "notexec" THEN [st |-> st, exc |-> Exc("PermissionError"), value |-> "None"]
    ELSE LET s1 == check_output(st, <<Prefix \o "/bin/conda", "-V">>, c.code, Cat(c.out))
             words == split(c.out)
         IN  IF c.code # 0 THEN [st |-> s1, exc |-> NoExc, value |-> "False"]
             ELSE IF Len(words) < 2 THEN [st |-> s1, exc |-> Exc("IndexError"), value |-> "None"]
             ELSE LET ge == VersionGE(words[2], version)
                  IN  IF ge = "TypeError" THEN [st |-> s1, exc |-> Exc("TypeError"), value |-> "None"]
                      ELSE [st |-> s1, exc |-> NoExc, value |-> ge]

CheckMinicondaVersion_installs(version) ==
    /\ nOps < MaxProbeOps
    /\ nOps' = nOps + 1
    /\ LET r == check_miniconda_version(St0, conda, version)
       IN  /\ ret' = Ret("check_miniconda_version", version, r.exc, r.value)
           /\ cmds' = r.st.cmds
           /\ log' = r.st.log
           /\ conda' = IF r.value = "False" THEN [binary |-> "present", code |-> 0, out |-> <<"conda", " ", "4.9", "\n">>] ELSE conda
    /\ UNCHANGED <<perms, dlVars, condaVars, aptVars, sysVars>>

CheckMinicondaVersion(version) ==
    /\ nOps < MaxProbeOps
    /\ nOps' = nOps + 1
    /\ LET r == check_miniconda_version(St0, conda, version)
       IN  /\ ret' = Ret("check_miniconda_version", version, r.exc, r.value)
           /\ cmds' = r.st.cmds
           /\ log' = r.st.log
    /\ UNCHANGED <<probeVars, dlVars, condaVars, aptVars, sysVars>>

\* install_miniconda: run the installer through run_subprocess, then
\* fix_permissions.  A successful installer leaves a working conda of the
\* installer's version under the prefix, with files of any owner and mode.
InstallMiniconda(installed, code, chownCode, chmodCode) ==
    /\ nOps < MaxProbeOps
    /\ nOps' = nOps + 1
    /\ LET s1 == run_subprocess(St0, <<"/bin/bash", "/tmp/installer", "-u", "-b", "-p", Prefix>>, code, "")
           s2 == IF code = 0 THEN fix_permissions([s1 EXCEPT !.perms = [owned |-> FALSE, worldWritable |-> TRUE]], Prefix, chownCode, chmodCode) ELSE s1
       IN  /\ log' = s2.log
           /\ cmds' = s2.cmds
           /\ perms' = s2.perms
           /\ ret' = Ret("install_miniconda", installed, s2.exc, "None")
           /\ conda' = IF code = 0 THEN [binary |-> "present", code |-> 0, out |-> <<"conda", " ", installed, "\n">>] ELSE conda
    /\ UNCHANGED <<dlVars, condaVars, aptVars, sysVars>>

InitProbe ==
    /\ InitShared /\ InitSysIdle /\ InitDlIdle /\ InitCondaIdle /\ InitAptIdle
    /\ conda \in CondaStates
    /\ perms = [owned |-> FALSE, worldWritable |-> TRUE]

NextProbe ==
    \/ \E version \in MinVersions : CheckMinicondaVersion(version)
    \/ \E installed \in {"4.9", "4.7.12"}, code \in {0, 1}, chownCode \in {0, 1}, chmodCode \in {0, 1} : InstallMiniconda(installed, code, chownCode, chmodCode)

SpecProbe == InitProbe /\ [][NextProbe]_vars

\* A step of the probe.
IsProbe == nOps' # nOps /\ ret'.op = "check_miniconda_version"

AllInts(v) == \A i \in 1..Len(v) : v[i].isInt

\* a >= b on dotted numeric versions: at the first place they differ a is
\* larger, or b runs out first, or they are equal.
RECURSIVE NumGE(_, _)
NumGE(a, b) ==
    IF b = <<>> THEN TRUE
    ELSE IF a = <<>> THEN FALSE
    ELSE IF a[1].n # b[1].n THEN a[1].n > b[1].n
    ELSE NumGE(Tail(a), Tail(b))

\* The installed version a working conda reports: the second word.
Reports(c) == c.binary = "present" /\ c.code = 0 /\ Len(split(c.out)) >= 2

\* C4: the probe reports satisfied exactly when a conda binary exists under
\* the prefix, exits zero and reports a version >= the minimum, and it
\* changes nothing: not the prefix, its permissions, the log, nor the
\* number of network calls; the only command it runs is conda -V.
C4_ProbeExactAndPure ==
    [][IsProbe =>
        /\ conda' = conda /\ perms' = perms /\ netCalls' = netCalls /\ log' = log /\ dl' = dl
        /\ \A k \in (Len(cmds) + 1)..Len(cmds') : cmds'[k].argv = <<Prefix \o "/bin/conda", "-V">>
        /\ ret'.value = "True" => Reports(conda)
        /\ (Reports(conda) /\ AllInts(V(split(conda.out)[2]))) =>
              (ret'.value = "True" <=> NumGE(V(split(conda.out)[2]), V(ret'.arg)))
        /\ ~Reports(conda) => ret'.value # "True"
        /\ conda.binary = "missing" => (ret'.value = "False" /\ ret'.exc = NoExc /\ cmds' = cmds)
    ]_vars

C4_Witness ==
    /\ ret.op = "check_miniconda_version"
    /\ ret.value = "True"
    /\ ret.arg = "4.8"
    /\ split(conda.out)[2] = "4.9"
    /\ netCalls = 0
    /\ nOps = 3
    /\ \E k \in 1..Len(cmds) : cmds[k].argv[1] = "/bin/bash"

\* C5: the probe never raises: whatever the state of the prefix, it returns
\* a boolean.
C5_ProbeNeverRaises == ret.op = "check_miniconda_version" => (ret.exc = NoExc /\ ret.value \in {"True", "False"})

----------------------------------------------------------------------------
\* jhub/conda.py: ensure_conda_packages

\* The captured output of 'conda install --json' is a sequence of tokens:
\* the NUL byte, the newline, the marker a progress line starts with, the
\* rest of a progress line, and the pieces of the outcome record.
NUL == "\\x00"

NL == "\n"

FetchMarker == "{\"fetch\""

FetchRest == ": \"numpy\", \"finished\": false}"

SuccessTrue == "\"success\": true"

SuccessFalse == "\"success\": false"

OtherMember == "\"message\": \"done\""

Members == {SuccessTrue, SuccessFalse, OtherMember}

\* Progress lines conda mixes into one output (and it throws in one stray
\* NUL byte at most).
MaxProgress == 2

Insert(seq, i, x) == SubSeq(seq, 1, i) \o <<x>> \o SubSeq(seq, i + 1, Len(seq))

\* raw_output.split('\n')
RECURSIVE splitNL(_, _)
splitNL(raw, cur) ==
    IF raw = <<>> THEN <<cur>>
    ELSE IF raw[1] = NL THEN <<cur>> \o splitNL(Tail(raw), <<>>)
    ELSE splitNL(Tail(raw), Append(cur, raw[1]))

\* '\n'.join(ls)
RECURSIVE joinNL(_)
joinNL(ls) ==
    IF ls = <<>> THEN <<>>
    ELSE IF Len(ls) = 1 THEN ls[1]
    ELSE ls[1] \o <<NL>> \o joinNL(Tail(ls))

\* l.lstrip('\x00')
RECURSIVE lstripNUL(_)
lstripNUL(l) == IF l # <<>> /\ l[1] = NUL THEN lstripNUL(Tail(l)) ELSE l

\* l.lstrip('\x00').startswith('{"fetch"')
IsProgress(l) == LET t == lstripNUL(l) IN t # <<>> /\ t[1] = FetchMarker

NotProgress(l) == ~IsProgress(l)

filter_output_first_line_only(raw) ==
    LET ls == splitNL(raw, <<>>)
    IN  joinNL(IF IsProgress(ls[1]) THEN Tail(ls) ELSE ls)

\* '\n'.join([l for l in raw_output.split('\n') if not l.lstrip('\x00').startswith('{"fetch"')])
filter_output(raw) == joinNL(SelectSeq(splitNL(raw, <<>>), NotProgress))

NotNL(tok) == tok # NL

\* The members of a JSON object body: member (, member)*
RECURSIVE IsMemberList(_)
IsMemberList(toks) ==
    IF toks = <<>> THEN FALSE
    ELSE IF Len(toks) = 1 THEN toks[1] \in Members
    ELSE toks[1] \in Members /\ toks[2] = "," /\ IsMemberList(SubSeq(toks, 3, Len(toks)))

\* The value of the last "success" member, "absent" when there is none.
RECURSIVE SuccessIn(_)
SuccessIn(toks) ==
    IF toks = <<>> THEN "absent"
    ELSE LET last == toks[Len(toks)]
         IN  IF last = SuccessTrue THEN "true"
             ELSE IF last = SuccessFalse THEN "false"
             ELSE SuccessIn(SubSeq(toks, 1, Len(toks) - 1))

\* json.loads: white space between tokens is skipped, the text must be one
\* JSON value and nothing else; a NUL byte is never valid.  The result
\* tells whether the text parsed and what its "success" member is.
json_loads(text) ==
    LET toks == SelectSeq(text, NotNL)
        n == Len(toks)
    IN  IF toks = <<FetchMarker, FetchRest>> THEN [ok |-> TRUE, success |-> "absent"]
        ELSE IF n >= 2 /\ toks[1] = "{" /\ toks[n] = "}" /\ (n = 2 \/ IsMemberList(SubSeq(toks, 2, n - 1)))
        THEN [ok |-> TRUE, success |-> SuccessIn(toks)]
        ELSE [ok |-> FALSE, success |-> "absent"]

\* The output conda prints: the lines joined, with or without a final newline.
Toks(ls) == [i \in 1..Len(ls) |-> ls[i].toks]

RawOutput == joinNL(Toks(lines)) \o (IF trailingNL THEN <<NL>> ELSE <<>>)

CondaInstall(prefix, packages) == <<prefix \o "/bin/python", "-m", "conda", "install", "-c", "conda-forge", "--json", "--prefix", prefix>> \o packages

\* ensure_conda_packages: conda install through subprocess.check_output
\* (stderr not captured, nothing logged), the output filtered and parsed;
\* with "success": true the function returns, otherwise it runs
\* fix_permissions and returns.
ensure_conda_packages(st, prefix, packages, code, raw, chownCode, chmodCode) ==
    LET s1 == check_output(st, CondaInstall(prefix, packages), code, Cat(raw))
        output == json_loads(lstripNUL(filter_output(raw)))
    IN  IF code # 0 THEN s1
        ELSE IF ~output.ok THEN [s1 EXCEPT !.exc = Exc("JSONDecodeError")]
        ELSE IF output.success = "true" THEN s1
        ELSE fix_permissions(s1, prefix, chownCode, chmodCode)

Ran0 == ret.op = "none"

\* conda prints one more progress line, with or without a leading NUL
AddProgressLine(i, nul) ==
    /\ Ran0
    /\ Cardinality({k \in 1..Len(lines) : lines[k].kind = "progress"}) < MaxProgress
    /\ i \in 0..Len(lines)
    /\ lines' = Insert(lines, i, [kind |-> "progress", toks |-> (IF nul THEN <<NUL>> ELSE <<>>) \o <<FetchMarker, FetchRest>>])
    /\ UNCHANGED <<log, cmds, ret, nOps, trailingNL, nStray, dlVars, probeVars, aptVars, sysVars>>

\* conda throws a NUL byte somewhere into the output
AddStrayNUL(i, j) ==
    /\ Ran0
    /\ nStray = 0
    /\ i \in 1..Len(lines)
    /\ j \in 0..Len(lines[i].toks)
    /\ lines' = [lines EXCEPT ![i].toks = Insert(@, j, NUL)]
    /\ nStray' = nStray + 1
    /\ UNCHANGED <<log, cmds, ret, nOps, trailingNL, dlVars, probeVars, aptVars, sysVars>>

EnsureCondaPackages(packages, code, chownCode, chmodCode) ==
    /\ Ran0
    /\ nOps' = nOps + 1
    /\ LET st == ensure_conda_packages(St0, Prefix, packages, code, RawOutput, chownCode, chmodCode)
       IN  /\ log' = st.log
           /\ cmds' = st.cmds
           /\ perms' = st.perms
           /\ ret' = Ret("ensure_conda_packages", JoinSp(packages), st.exc, "None")
    /\ UNCHANGED <<conda, condaVars, dlVars, aptVars, sysVars>>

RecLine(toks) == [kind |-> "record", toks |-> toks]

\* The outcome record conda ends with, on one line or spread over lines.
RecordBodies == {<<>>, <<SuccessTrue>>, <<SuccessFalse>>, <<OtherMember>>, <<OtherMember, ",", SuccessTrue>>}

RecordLayouts == {<<RecLine(<<"{">> \o b \o <<"}">>)>> : b \in RecordBodies} \cup {<<RecLine(<<"{">>), RecLine(b), RecLine(<<"}">>)>> : b \in RecordBodies \ {<<>>}}

InitConda ==
    /\ InitShared /\ InitSysIdle /\ InitDlIdle /\ InitAptIdle
    /\ conda = [binary |-> "present", code |-> 0, out |-> <<"conda", " ", "4.9", "\n">>]
    /\ perms = [owned |-> FALSE, worldWritable |-> TRUE]
    /\ lines \in RecordLayouts
    /\ trailingNL \in BOOLEAN
    /\ nStray = 0

NextConda ==
    \/ \E i \in 0..Len(lines), nul \in BOOLEAN : AddProgressLine(i, nul)
    \/ \E i \in 1..Len(lines) : \E j \in 0..Len(lines[i].toks) : AddStrayNUL(i, j)
    \/ \E packages \in {<<"numpy">>}, code \in {0, 1}, chownCode \in {0, 1}, chmodCode \in {0, 1} : EnsureCondaPackages(packages, code, chownCode, chmodCode)

SpecConda == InitConda /\ [][NextConda]_vars

\* What the claims say about the output, read off the lines conda printed.
IsRecordLine(l) == l.kind = "record"

RecordToks == SelectSeq(joinNL(Toks(SelectSeq(lines, IsRecordLine))), NotNL)

\* The success flag of the outcome record itself.
RecordFlag ==
    IF SuccessTrue \in {RecordToks[k] : k \in 1..Len(RecordToks)} THEN "true"
    ELSE IF SuccessFalse \in {RecordToks[k] : k \in 1..Len(RecordToks)} THEN "false"
    ELSE "absent"

FirstRecordLine == CHOOSE i \in 1..Len(lines) : IsRecordLine(lines[i]) /\ \A k \in 1..(i - 1) : ~IsRecordLine(lines[k])

\* Every NUL byte stands in a progress line or directly before the first
\* character of the outcome record.
NULsLead ==
    \A i \in 1..Len(lines) : IsRecordLine(lines[i]) =>
        \A j \in 1..Len(lines[i].toks) : lines[i].toks[j] = NUL =>
            (i = FirstRecordLine /\ \A k \in 1..j : lines[i].toks[k] = NUL)

Installed == ret.op = "ensure_conda_packages" /\ cmds[1].code = 0

ReturnedEarly == Len(cmds) = 1 /\ ret.exc = NoExc

RanCmd(k, name) == k <= Len(cmds) /\ cmds[k].argv[1] = name

\* C7: when the outcome record reports success, chown and then chmod have
\* run on the prefix before the operation returns.
C7_NormalizesAfterSuccess ==
    (Installed /\ NULsLead /\ RecordFlag = "true" /\ ret.exc = NoExc) =>
        (RanCmd(2, "chown") /\ RanCmd(3, "chmod") /\ perms = [owned |-> TRUE, worldWritable |-> FALSE])

\* C8: when conda exits zero and the record does not say "success": true,
\* the operation fails with an error that is not a process failure.
C8_ParseErrorOnOtherShape ==
    (Installed /\ NULsLead /\ RecordFlag # "true") =>
        (ret.exc # NoExc /\ ret.exc.type # "CalledProcessError")

\* C9 as claimed: whatever the places of the progress lines and of the stray
\* NUL byte, the output is parsed like the outcome record alone.
C9_ParsesLikeRecordAlone_AnyNUL ==
    Installed => (ret.exc.type # "JSONDecodeError" /\ (ReturnedEarly <=> RecordFlag = "true"))

\* C9: whatever the places of the progress lines, and with NUL bytes inside
\* progress lines or directly before the outcome record, the output is
\* parsed like the outcome record alone: the record's success flag decides.
C9_ParsesLikeRecordAlone ==
    (Installed /\ NULsLead) => (ret.exc.type # "JSONDecodeError" /\ (ReturnedEarly <=> RecordFlag = "true"))

C9_Witness ==
    /\ Installed /\ NULsLead /\ ReturnedEarly
    /\ Len(lines) = 5
    /\ lines[2].kind = "progress" /\ lines[2].toks[1] = NUL
    /\ lines[4].kind = "progress"
    /\ lines[1].toks = <<NUL, "{">>

\* C10: every command that exited non-zero is logged at error severity with
\* its exit code and its output, and the operation raised.
C10_FailuresLoggedAndRaised ==
    \A k \in 1..Len(cmds) : cmds[k].code # 0 =>
        /\ ret.exc = CalledProcessError(cmds[k].code)
        /\ \E i \in 1..(Len(log) - 1) :
              /\ log[i] = Rec("ERROR", RanMsg(cmds[k].argv, cmds[k].code))
              /\ log[i + 1] = Rec("ERROR", cmds[k].out)

----------------------------------------------------------------------------
\* jhub/apt.py: add_source

\* add_source calls in one behaviour of SpecApt, and the longest source
\* file (in tokens) it can start from.
MaxCalls == 2

MaxFileLen == 4

Urls == {"https://pkg.example/repo", "https://other.example/apt"}

Sections == {"main"}

\* f'deb {source_url} {distro} {section}' (the line without its newline)
DebText(source_url, codename, section) == "deb " \o source_url \o " " \o codename \o " " \o section

\* f'deb {source_url} {distro} {section}\n'
DebLine(source_url, codename, section) == <<DebText(source_url, codename, section), NL>>

\* The source file is a sequence of tokens: the text of a deb line, a
\* comment prefix, the newline.
FileTokens == {DebText(u, "focal", s) : u \in Urls, s \in Sections} \cup {"# ", NL}

FileContents == UNION {[1..n -> FileTokens] : n \in 0..MaxFileLen}

\* line in text: text holds line as a contiguous run
Contains(text, line) == \E k \in 0..(Len(text) - Len(line)) : SubSeq(text, k + 1, k + Len(line)) = line

\* The query of VERSION_CODENAME prints the codename and a newline.
CodenameQuery == <<"/bin/bash", "-c", "source /etc/os-release && echo ${VERSION_CODENAME}">>

add_source_always_refresh(st, text, source_url, section, queryCode, updateCode) ==
    LET s1 == check_output(st, CodenameQuery, queryCode, IF queryCode = 0 THEN distro \o "\n" ELSE "")
        codename == Cat(split(<<distro, "\n">>))
        line == DebLine(source_url, codename, section)
    IN  IF queryCode # 0 THEN [st |-> s1, text |-> text, appended |-> FALSE]
        ELSE [st |-> run_subprocess(s1, <<"apt-get", "update", "--yes">>, updateCode, ""),
              text |-> IF ~Contains(text, line) THEN text \o line ELSE text, appended |-> ~Contains(text, line)]

\* add_source: query the codename (subprocess.check_output, nothing
\* logged), open the file for appending and reading, and when the line is
\* not in what the file holds, append it and run apt-get update.
add_source(st, text, source_url, section, queryCode, updateCode) ==
    LET s1 == check_output(st, CodenameQuery, queryCode, IF queryCode = 0 THEN distro \o "\n" ELSE "")
        codename == Cat(split(<<distro, "\n">>))
        line == DebLine(source_url, codename, section)
    IN  IF queryCode # 0 THEN [st |-> s1, text |-> text, appended |-> FALSE]
        ELSE IF ~Contains(text, line)
        THEN [st |-> run_subprocess(s1, <<"apt-get", "update", "--yes">>, updateCode, ""), text |-> text \o line, appended |-> TRUE]
        ELSE [st |-> s1, text |-> text, appended |-> FALSE]

AddSource(source_url, section, queryCode, updateCode) ==
    /\ Len(calls) < MaxCalls
    /\ nOps' = nOps + 1
    /\ LET r == add_source(St0, file, source_url, section, queryCode, updateCode)
       IN  /\ file' = r.text
           /\ log' = r.st.log
           /\ cmds' = r.st.cmds
           /\ ret' = Ret("add_source", source_url, r.st.exc, "None")
           /\ calls' = Append(calls, [url |-> source_url, section |-> section, before |-> file, appended |-> r.appended,
                                      refreshes |-> Cardinality({k \in (Len(cmds) + 1)..Len(r.st.cmds) : r.st.cmds[k].argv[1] = "apt-get"}),
                                      exc |-> r.st.exc])
    /\ UNCHANGED <<distro, dlVars, probeVars, condaVars, sysVars>>

InitApt ==
    /\ InitShared /\ InitSysIdle /\ InitDlIdle /\ InitProbeIdle /\ InitCondaIdle
    /\ file \in FileContents
    /\ distro = "focal"
    /\ calls = <<>>

NextApt == \E source_url \in Urls, section \in Sections, queryCode \in {0, 1}, updateCode \in {0, 1} : AddSource(source_url, section, queryCode, updateCode)

SpecApt == InitApt /\ [][NextApt]_vars

\* The number of lines of the file that are exactly the deb line.
LinesEqual(text, source_url, section) ==
    LET ls == splitNL(text, <<>>)
    IN  Cardinality({k \in 1..Len(ls) : ls[k] = <<DebText(source_url, distro, section)>>})

\* The file holds complete lines only.
CompleteLines(text) == text = <<>> \/ text[Len(text)] = NL

\* C1: after two successful add_source calls in a row with the same
\* arguments, exactly one line of the file is the deb line and apt-get
\* update ran at most once, in the first call.  (Stated for files of
\* complete lines that hold the line at most once to begin with:
\* add_source never removes a line.)
C1_TwoCallsOneLine ==
    (/\ Len(calls) = 2
     /\ calls[1].url = calls[2].url /\ calls[1].section = calls[2].section
     /\ calls[1].exc = NoExc /\ calls[2].exc = NoExc
     /\ CompleteLines(calls[1].before)
     /\ LinesEqual(calls[1].before, calls[1].url, calls[1].section) <= 1) =>
        /\ LinesEqual(file, calls[1].url, calls[1].section) = 1
        /\ calls[1].refreshes <= 1
        /\ calls[2].refreshes = 0

----------------------------------------------------------------------------
\* jhub/conda.py: ensure_pip_packages, ensure_pip_requirements

\* Operations in one behaviour of SpecPip
MaxPipOps == 2

\* The prefixes the callers pass: absolute, or relative to the working
\* directory /opt/jhub.
Prefixes == {Prefix, "user"}

PackageLists == {<<"jupyterhub">>, <<"notebook", "ipywidgets">>}

RequirementsPaths == {"/srv/requirements.txt", "https://pkg.example/requirements.txt"}

\* os.path.abspath(prefix), the process running in /opt/jhub
abspath(prefix) == CASE prefix = "user" -> "/opt/jhub/user" [] OTHER -> prefix

\* [os.path.join(abspath, 'bin', 'python'), '-m', 'pip']
pip_executable(prefix) == <<abspath(prefix) \o "/bin/python", "-m", "pip">>

\* ensure_pip_packages: pip install --no-cache-dir <packages> through
\* run_subprocess, then fix_permissions; a failing pip raises before it.
ensure_pip_packages(st, prefix, packages, code, chownCode, chmodCode) ==
    LET s1 == run_subprocess(st, pip_executable(prefix) \o <<"install", "--no-cache-dir">> \o packages, code, "")
    IN  IF s1.exc # NoExc THEN s1 ELSE fix_permissions(s1, prefix, chownCode, chmodCode)

\* ensure_pip_requirements: pip install -r <requirements_path> through
\* run_subprocess, then fix_permissions; a failing pip raises before it.
ensure_pip_requirements(st, prefix, requirements_path, code, chownCode, chmodCode) ==
    LET s1 == run_subprocess(st, pip_executable(prefix) \o <<"install", "-r", requirements_path>>, code, "")
    IN  IF s1.exc # NoExc THEN s1 ELSE fix_permissions(s1, prefix, chownCode, chmodCode)

EnsurePipPackages(prefix, packages, code, chownCode, chmodCode) ==
    /\ nOps < MaxPipOps
    /\ nOps' = nOps + 1
    /\ LET st == ensure_pip_packages(St0, prefix, packages, code, chownCode, chmodCode)
       IN  /\ log' = st.log
           /\ cmds' = st.cmds
           /\ perms' = st.perms
           /\ ret' = Ret("ensure_pip_packages", prefix, st.exc, "None")
    /\ UNCHANGED <<conda, dlVars, condaVars, aptVars, sysVars>>

EnsurePipRequirements(prefix, requirements_path, code, chownCode, chmodCode) ==
    /\ nOps < MaxPipOps
    /\ nOps' = nOps + 1
    /\ LET st == ensure_pip_requirements(St0, prefix, requirements_path, code, chownCode, chmodCode)
       IN  /\ log' = st.log
           /\ cmds' = st.cmds
           /\ perms' = st.perms
           /\ ret' = Ret("ensure_pip_requirements", prefix, st.exc, "None")
    /\ UNCHANGED <<conda, dlVars, condaVars, aptVars, sysVars>>

InitPip == InitShared /\ InitSysIdle /\ InitDlIdle /\ InitProbeIdle /\ InitCondaIdle /\ InitAptIdle

NextPip ==
    \/ \E prefix \in Prefixes, packages \in PackageLists, code \in {0, 1}, chownCode \in {0, 1}, chmodCode \in {0, 1} : EnsurePipPackages(prefix, packages, code, chownCode, chmodCode)
    \/ \E prefix \in Prefixes, requirements_path \in RequirementsPaths, code \in {0, 1}, chownCode \in {0, 1}, chmodCode \in {0, 1} : EnsurePipRequirements(prefix, requirements_path, code, chownCode, chmodCode)

SpecPip == InitPip /\ [][NextPip]_vars

\* C11: ensure_pip_requirements does what ensure_pip_packages does when the
\* package set is given as -r <requirements_path>: the same commands (the
\* prefix's pip, --no-cache-dir, through run_subprocess), the same log
\* records, the same permissions and the same exception, so fix_permissions
\* runs after a successful pip and not after a failing one.
C11_RequirementsLikePackages ==
    [][ret'.op = "ensure_pip_requirements" /\ nOps' # nOps =>
          \E requirements_path \in RequirementsPaths, code \in {0, 1}, chownCode \in {0, 1}, chmodCode \in {0, 1} :
             LET st == ensure_pip_packages(St0, ret'.arg, <<"-r", requirements_path>>, code, chownCode, chmodCode)
             IN  /\ cmds' = st.cmds
                 /\ log' = st.log
                 /\ perms' = st.perms
                 /\ ret'.exc = st.exc]_vars

\* The commands the step just taken ran.
NewCmds == SubSeq(cmds', Len(cmds) + 1, Len(cmds'))

\* C12: in every add_source call, apt-get update is run exactly when the
\* call changed the file; a call that changes the file leaves the previous
\* content as a prefix and adds the one deb line after it; a call that does
\* not change it runs no command but the codename query.
C12_RefreshIffAppended ==
    [][calls' # calls =>
          LET c == calls'[Len(calls')]
              refreshed == \E k \in 1..Len(NewCmds) : NewCmds[k].argv = <<"apt-get", "update", "--yes">>
          IN  /\ refreshed <=> file' # file
              /\ file' # file => file' = file \o DebLine(c.url, distro, c.section)
              /\ file' = file => \A k \in 1..Len(NewCmds) : NewCmds[k].argv = CodenameQuery]_vars

\* A call on a file with content appended and refreshed, the next call with
\* the same arguments did neither.
C12_Witness ==
    /\ Len(calls) = 2
    /\ calls[1].before # <<>>
    /\ calls[1].appended /\ calls[1].refreshes = 1
    /\ calls[2].url = calls[1].url /\ calls[2].exc = NoExc
    /\ ~calls[2].appended /\ calls[2].refreshes = 0
    /\ file = calls[1].before \o DebLine(calls[1].url, distro, calls[1].section)

\* The codename query of the last call exited zero.
LastQueryOk == \A k \in 1..Len(cmds) : (cmds[k].argv = CodenameQuery /\ \A j \in (k + 1)..Len(cmds) : cmds[j].argv # CodenameQuery) => cmds[k].code = 0

\* C13: when a call appended the line and its apt-get update exited
\* non-zero, the next call with the same arguments runs apt-get update again.
C13_RefreshAgainAfterFailedRefresh ==
    (/\ Len(calls) = 2
     /\ calls[1].url = calls[2].url /\ calls[1].section = calls[2].section
     /\ calls[1].appended /\ calls[1].refreshes = 1 /\ calls[1].exc # NoExc
     /\ LastQueryOk) =>
        calls[2].refreshes = 1

\* C16: after an add_source call that returned, one line of the file is
\* exactly the deb line.
C16_LineOfItsOwn ==
    (ret.op = "add_source" /\ ret.exc = NoExc) =>
        LinesEqual(file, calls[Len(calls)].url, calls[Len(calls)].section) >= 1

----------------------------------------------------------------------------
\* Logging: jhub/log.py init_logging, the logging set-up of
\* initialize/initialize.py main, and Python's dispatch of a record.

\* run_subprocess calls after init_logging in one behaviour of SpecBoot
MaxLogRuns == 2

\* logging's numeric value of a level name
LevelNo(level) ==
    CASE level = "NOTSET" -> 0
      [] level = "DEBUG" -> 10
      [] level = "INFO" -> 20
      [] level = "WARNING" -> 30
      [] level = "ERROR" -> 40

\* A handler: where it writes, its own level, whether its format starts
\* with %(asctime)s.
Handler(stream, level, asctime) == [stream |-> stream, level |-> level, asctime |-> asctime]

\* logging.FileHandler(<install prefix>/installer.log)
FileHandler(level) == Handler("installer.log", level, TRUE)

\* logging.StreamHandler(): sys.stderr
StreamHandler(level) == Handler("stderr", level, FALSE)

\* logging.lastResort: stderr at WARNING, used when no handler is found
lastResort == StreamHandler("WARNING")

\* A formatted line: with or without the time in front of the message.
Line(asctime, msg) == [asctime |-> asctime, message |-> msg]

\* Logger.getEffectiveLevel: the logger's level, or its parent's (the root
\* logger is the parent of both "jhub" and "__main__").
getEffectiveLevel(cfg, name) == IF cfg[name].level # "NOTSET" THEN cfg[name].level ELSE cfg.root.level

\* Handler.handle: the record is emitted when it reaches the handler's level.
emit(sinks, h, rec) ==
    IF LevelNo(rec.level) < LevelNo(h.level) THEN sinks
    ELSE IF h.stream = "installer.log" THEN [sinks EXCEPT !.installerLog = Append(@, Line(h.asctime, rec.msg))]
    ELSE [sinks EXCEPT !.stderr = Append(@, Line(h.asctime, rec.msg))]

RECURSIVE emitAll(_, _, _)
emitAll(sinks, hs, rec) == IF hs = <<>> THEN sinks ELSE emitAll(emit(sinks, Head(hs), rec), Tail(hs), rec)

\* Logger.callHandlers: the handlers of the logger and of its ancestors;
\* with none at all, lastResort.
callHandlers(cfg, sinks, name, rec) ==
    LET hs == cfg[name].handlers \o cfg.root.handlers
    IN  IF hs = <<>> THEN emit(sinks, lastResort, rec) ELSE emitAll(sinks, hs, rec)

\* Logger.debug/info/error: dropped below the effective level of the
\* logger, handed to the handlers otherwise.
logger_log(cfg, sinks, name, rec) ==
    IF LevelNo(rec.level) < LevelNo(getEffectiveLevel(cfg, name)) THEN sinks
    ELSE callHandlers(cfg, sinks, name, rec)

RECURSIVE logger_logAll(_, _, _, _)
logger_logAll(cfg, sinks, name, recs) ==
    IF recs = <<>> THEN sinks
    ELSE logger_logAll(cfg, logger_log(cfg, sinks, name, Head(recs)), name, Tail(recs))

\* The state main and run_subprocess thread through once logging counts:
\* St0 with the loggers and what the handlers wrote.
StLog == [log |-> log, cmds |-> cmds, exc |-> NoExc, perms |-> perms, logging |-> logging, sinks |-> [installerLog |-> installerLog, stderr |-> stderr]]

\* run_subprocess with the records it hands to logging.getLogger('jhub')
\* dispatched to the handlers.
run_subprocess_logged(st, cmd, code, out) ==
    LET s1 == run_subprocess(st, cmd, code, out)
    IN  [s1 EXCEPT !.sinks = logger_logAll(st.logging, @, "jhub", SubSeq(s1.log, Len(st.log) + 1, Len(s1.log)))]

\* jhub.log.init_logging: a file handler and a stderr handler on the "jhub"
\* logger, neither with a level of its own, and the logger set to INFO.
init_logging(cfg) == [cfg EXCEPT !.jhub.handlers = @ \o <<FileHandler("NOTSET"), StreamHandler("NOTSET")>>, !.jhub.level = "INFO"]

\* initialize.py main, lines 184-199: a file handler at DEBUG and a stderr
\* handler at INFO on the module's logger (logging.getLogger(__name__)),
\* and that logger set to DEBUG.
main_logging(cfg) == [cfg EXCEPT !.main.handlers = @ \o <<FileHandler("DEBUG"), StreamHandler("INFO")>>, !.main.level = "DEBUG"]

----------------------------------------------------------------------------
\* initialize/initialize.py: main

temp_page_flag == "--show-progress-page"

pid_flag == "--progress-page-server-pid"

hub_prefix == "/opt/jhub/hub"

JHUB_URL == "git+https://github.com/tom-henrich/sptoolkit.git"

\* sys.argv[1:] as the script is started
Argvs == {<<>>, <<temp_page_flag>>, <<"--admin", "alice">>, <<"--admin", "alice", temp_page_flag>>, <<temp_page_flag, temp_page_flag>>}

\* p.pid of the progress page server
Pids == {77, 4242}

\* What the commands of main print.
MainOut == "Reading package lists...\n"

\* x in flags
In(x, flags) == \E i \in 1..Len(flags) : flags[i] = x

\* flags.remove(x): the first x goes
RECURSIVE remove(_, _)
remove(flags, x) ==
    IF flags = <<>> THEN <<>>
    ELSE IF Head(flags) = x THEN Tail(flags)
    ELSE <<Head(flags)>> \o remove(Tail(flags), x)

\* get_os_release_variable(key)
OsRelease(key) == <<"/bin/bash", "-c", "source /etc/os-release && echo ${" \o key \o "}">>

\* validate_host: the distribution is read from /etc/os-release; anything
\* but ubuntu ends the process with exit status 1.
validate_host(st, id) ==
    LET s1 == check_output(st, OsRelease("ID"), 0, id \o "\n")
        s2 == check_output(s1, OsRelease("VERSION_ID"), 0, "20.04\n")
    IN  IF id # "ubuntu" THEN [s2 EXCEPT !.exc = Exc("SystemExit")] ELSE s2

Info(msg) == [kind |-> "info", msg |-> msg, cmd |-> <<>>]

Run(cmd) == [kind |-> "run", msg |-> "", cmd |-> cmd]

\* Lines 201-252 of main in order: logger.info(...) and run_subprocess(...)
MainSteps(installed, dev) ==
    <<Info("Checking if SPT jhub is already installed...")>>
    \o (IF installed
        THEN <<Info("SPT jhub is already installed, so upgrading...")>>
        ELSE <<Info("Setting up hub virtual environment..."),
               Run(<<"apt-get", "update", "--yes">>),
               Run(<<"apt-get", "install", "--yes", "software-properties-common">>),
               Run(<<"add-apt-repository", "universe">>),
               Run(<<"apt-get", "update", "--yes">>),
               Run(<<"apt-get", "install", "--yes", "python3", "python3-venv", "python3-pip", "git">>),
               Info("Python and Virtual Environment installed Successfully!"),
               Run(<<"python3", "-m", "venv", hub_prefix>>),
               Info("The hub (JupyterHub) virtual environment created!")>>)
    \o <<Info(IF installed THEN "Upgrading the jhub installer..." ELSE "Setting up the jhub installer..."),
         Run(<<hub_prefix \o "/bin/pip", "install", "--upgrade", "pip==20.0.*">>),
         Info("pip Upgraded Successfully!"),
         Run(<<hub_prefix \o "/bin/pip", "install", "--upgrade">> \o (IF dev THEN <<"--editable">> ELSE <<>>) \o <<JHUB_URL>>),
         Info("Jhub package setup succesfully!"),
         Info("Starting jhub installer...")>>

\* The number of run_subprocess calls among the steps.
NumRuns(steps) == Cardinality({i \in 1..Len(steps) : steps[i].kind = "run"})

\* The steps in order; the failAt-th command exits 1 and its
\* CalledProcessError ends main, every other command exits 0.
RECURSIVE run_steps(_, _, _, _)
run_steps(st, steps, failAt, n) ==
    IF steps = <<>> \/ st.exc # NoExc THEN st
    ELSE IF Head(steps).kind = "info"
    THEN run_steps([st EXCEPT !.sinks = logger_log(st.logging, @, "main", Rec("INFO", Head(steps).msg))], Tail(steps), failAt, n)
    ELSE run_steps(run_subprocess_logged(st, Head(steps).cmd, IF n + 1 = failAt THEN 1 ELSE 0, MainOut), Tail(steps), failAt, n + 1)

\* Lines 155-178: with the flag given, the page is written and the favicon
\* fetched (a failure there ends main); then the server is started, the
\* flag removed and the pid flag added, or OSError is caught and flags stay
\* as they are.
progress_page(flags, server, pid) ==
    IF In(temp_page_flag, flags) /\ server = "started"
    THEN remove(flags, temp_page_flag) \o <<pid_flag, ToString(pid)>>
    ELSE flags

main(st, argv, pageOk, server, pid, id, installed, dev, failAt) ==
    LET wants == In(temp_page_flag, argv)
        flags == progress_page(argv, server, pid)
        s1 == validate_host(st, id)
        s2 == [s1 EXCEPT !.logging = main_logging(@)]
        s3 == run_steps(s2, MainSteps(installed, dev), failAt, 0)
        started == wants /\ pageOk /\ server = "started"
        srv == [server |-> IF ~wants \/ ~pageOk THEN "none" ELSE server, pid |-> IF started THEN pid ELSE 0]
    IN  IF wants /\ ~pageOk THEN [st |-> [st EXCEPT !.exc = Exc("URLError")], execv |-> <<>>, server |-> srv.server, pid |-> srv.pid]
        ELSE IF s1.exc # NoExc THEN [st |-> s1, execv |-> <<>>, server |-> srv.server, pid |-> srv.pid]
        ELSE IF s3.exc # NoExc THEN [st |-> s3, execv |-> <<>>, server |-> srv.server, pid |-> srv.pid]
        ELSE [st |-> s3, execv |-> <<hub_prefix \o "/bin/python3", "-m", "jhub.installer">> \o flags, server |-> srv.server, pid |-> srv.pid]

\* main runs to os.execv, which replaces the process image (the loggers
\* of the new process start unconfigured), or to the exception that ends
\* the process.
Main(argv, pageOk, server, pid, id, installed, dev, failAt) ==
    /\ boot.pc = "start"
    /\ logging = NoLogging
    /\ LET r == main(StLog, argv, pageOk, server, pid, id, installed, dev, failAt)
       IN  /\ log' = r.st.log
           /\ cmds' = r.st.cmds
           /\ installerLog' = r.st.sinks.installerLog
           /\ stderr' = r.st.sinks.stderr
           /\ logging' = IF r.st.exc = NoExc THEN NoLogging ELSE r.st.logging
           /\ ret' = Ret("main", JoinSp(argv), r.st.exc, "None")
           /\ boot' = [pc |-> IF r.st.exc = NoExc THEN "exec" ELSE "exited", argv |-> argv, execv |-> r.execv, server |-> r.server, pid |-> r.pid]
    /\ UNCHANGED <<nOps, pm, dlVars, probeVars, condaVars, aptVars>>

\* init_logging in a process whose "jhub" logger has no handler yet.
InitLogging ==
    /\ boot.pc \in {"start", "exec"}
    /\ logging.jhub.handlers = <<>>
    /\ logging' = init_logging(logging)
    /\ ret' = Ret("init_logging", "", NoExc, "None")
    /\ UNCHANGED <<log, cmds, nOps, installerLog, stderr, pm, boot, dlVars, probeVars, condaVars, aptVars>>

\* utils.run_subprocess once init_logging has run.
RunSubprocessLogged(cmd, code, out) ==
    /\ logging.jhub.handlers # <<>>
    /\ nOps < MaxLogRuns
    /\ nOps' = nOps + 1
    /\ LET st == run_subprocess_logged(StLog, cmd, code, out)
       IN  /\ log' = st.log
           /\ cmds' = st.cmds
           /\ installerLog' = st.sinks.installerLog
           /\ stderr' = st.sinks.stderr
           /\ ret' = Ret("run_subprocess", JoinSp(cmd), st.exc, "None")
    /\ UNCHANGED <<logging, pm, boot, dlVars, probeVars, condaVars, aptVars>>

InitBoot == InitShared /\ InitSysIdle /\ InitDlIdle /\ InitProbeIdle /\ InitCondaIdle /\ InitAptIdle

NextBoot ==
    \/ \E argv \in Argvs, pageOk \in BOOLEAN, server \in {"started", "OSError"}, pid \in Pids, id \in {"ubuntu", "debian"}, installed \in BOOLEAN, dev \in BOOLEAN :
          \E failAt \in 0..NumRuns(MainSteps(installed, dev)) : Main(argv, pageOk, server, pid, id, installed, dev, failAt)
    \/ InitLogging
    \/ \E cmd \in RunCmds, code \in ExitCodes, out \in Outputs : RunSubprocessLogged(cmd, code, out)

SpecBoot == InitBoot /\ [][NextBoot]_vars

\* The lines of installer.log hold the message msg.
InInstallerLog(msg) == \E i \in 1..Len(installerLog) : installerLog[i].message = msg

\* C14: for every command run through run_subprocess that exited zero, the
\* line 'Ran <command> with exit code 0' and the captured output are in
\* installer.log (run_subprocess runs here only under the logging set-up of
\* main or after init_logging).
C14_SuccessInInstallerLog ==
    \A k \in 1..Len(cmds) : (cmds[k].via = "run_subprocess" /\ cmds[k].code = 0) =>
        /\ InInstallerLog(RanMsg(cmds[k].argv, 0))
        /\ InInstallerLog(cmds[k].out)

\* C17: the argument list main hands to os.execv never holds
\* --show-progress-page, and holds --progress-page-server-pid <pid> exactly
\* when the progress page server was started.
C17_ExecArgs ==
    boot.pc = "exec" =>
        /\ ~In(temp_page_flag, boot.execv)
        /\ (boot.server = "started") <=> (\E i \in 1..(Len(boot.execv) - 1) : boot.execv[i] = pid_flag /\ boot.execv[i + 1] = ToString(boot.pid))

----------------------------------------------------------------------------
\* jhub/utils.py: get_plugin_manager

\* get_plugin_manager calls in one behaviour of SpecPlugins
MaxManagers == 3

\* Distributions that register an entry point in the 'jhub' group.
Plugins == {"jhub-plugin-a", "jhub-plugin-b", "jhub-plugin-c"}

\* pluggy.PluginManager('jhub'): a new object (its identity is the number
\* of managers made so far plus one), nothing registered yet.
PluginManager(made) == [id |-> Len(made) + 1, hookspecs |-> FALSE, plugins |-> <<>>]

\* pm.add_hookspecs(hooks)
add_hookspecs(m) == [m EXCEPT !.hookspecs = TRUE]

\* pm.load_setuptools_entrypoints('jhub'): every entry point of the group
\* installed at the time of the call is loaded and registered.
load_setuptools_entrypoints(m, installed) == [m EXCEPT !.plugins = @ \o installed]

\* get_plugin_manager: a new manager, the hook specifications added, the
\* entry points loaded, the manager returned.
get_plugin_manager(p) ==
    LET m == load_setuptools_entrypoints(add_hookspecs(PluginManager(p.made)), p.installed)
    IN  [p EXCEPT !.made = Append(@, m), !.discoveries = @ + 1]

GetPluginManager ==
    /\ Len(pm.made) < MaxManagers
    /\ pm' = get_plugin_manager(pm)
    /\ ret' = Ret("get_plugin_manager", "", NoExc, ToString(pm'.made[Len(pm'.made)].id))
    /\ UNCHANGED <<log, cmds, nOps, logVars, boot, dlVars, probeVars, condaVars, aptVars>>

\* A distribution with a 'jhub' entry point is installed into the
\* environment of the process.
InstallPlugin(name) ==
    /\ ~In(name, pm.installed)
    /\ pm' = [pm EXCEPT !.installed = Append(@, name)]
    /\ UNCHANGED <<log, cmds, ret, nOps, logVars, boot, dlVars, probeVars, condaVars, aptVars>>

InitPlugins == InitShared /\ InitSysIdle /\ InitDlIdle /\ InitProbeIdle /\ InitCondaIdle /\ InitAptIdle

NextPlugins ==
    \/ GetPluginManager
    \/ \E name \in Plugins : InstallPlugin(name)

SpecPlugins == InitPlugins /\ [][NextPlugins]_vars

\* C15: however many times get_plugin_manager is called in the process,
\* load_setuptools_entrypoints has run at most once and every call returned
\* the same manager.
C15_OneDiscoveryOneInstance ==
    /\ pm.discoveries <= 1
    /\ \A i, j \in 1..Len(pm.made) : pm.made[i].id = pm.made[j].id

====
